---- MODULE Spec2Model ----
(***************************************************************************)
(* Model of the pomodoro daemon: the timer state of PomodoroDaemon, the    *)
(* tick loop (runTimer / switchTimer), the connection handler              *)
(* (handleConnection / getStatus / toggleTimer) and the sync.RWMutex that  *)
(* serialises them.  Durations are counted in whole seconds.               *)
(***************************************************************************)
EXTENDS Integers, Sequences, FiniteSets, TLC

VARIABLES
    currentPeriod,           \* p.currentPeriod
    currentRestOfTime,       \* p.currentRestOfTime, in seconds
    initialPeriodDurations,  \* p.initialPeriodDurations, Work/Rest -> seconds
    mu,                      \* p.mu: [w |-> tasks holding Lock, r |-> tasks holding RLock]
    pc,                      \* position of the tick loop and of every handler goroutine
    command,                 \* handler local: the trimmed command
    st,                      \* handler local: the Status returned by getStatus
    response,                \* handler local: the Response
    sent,                    \* per slot: keys of the JSON object written on its last connection
    note,                    \* title handed to notify-send by the tick in progress ("" = none)
    stable,                  \* history: the timer state when a writer last released mu
    snap,                    \* history: per handler, `stable' when its getStatus took RLock
    tickPre,                 \* history: the timer state when the tick in progress took Lock
    toggled,                 \* history: per handler, the branch its toggleTimer took
    switched,                \* history: some "switch" command has been read
    origin,                  \* history: the timer state a run of toggles started from
    socket,                  \* the file at p.socketPath: "absent", "stale" or "bound"
    age,                     \* history: ticks completed since the current period was entered
    toggleParity             \* history: number of toggleTimer calls completed, modulo 2

timer == <<currentPeriod, currentRestOfTime>>
locals == <<command, st, response>>
vars == <<currentPeriod, currentRestOfTime, initialPeriodDurations, mu, pc,
          command, st, response, sent, note, stable, snap, tickPre, toggled,
          switched, origin, socket, age, toggleParity>>

----------------------------------------------------------------------------
(* Bounds *)

MaxConns == 2      \* connections handled concurrently
MaxLen == 2        \* largest configured period length, in seconds
MaxHours == 100    \* largest hours field of a formatted duration

----------------------------------------------------------------------------
(* Constants of the program *)

Unknown == 0
Work == 1
Rest == 2
Stopped == 3

Second == 1

Ticker == 0
Conns == 1..MaxConns
Tasks == {Ticker} \cup Conns

BufSize == 1024

----------------------------------------------------------------------------
(* Pure helpers *)

getReversedPeriodStuck(current) == Work

getReversedPeriodStops(current) == IF current = Work THEN Rest ELSE Stopped

getReversedPeriod(current) == IF current = Work THEN Rest ELSE Work

periodToString(period) ==
    CASE period = Work -> "Work"
      [] period = Rest -> "Rest"
      [] period = Stopped -> "Stopped"
      [] OTHER -> "Unknown"

\* fmt verb %02d
Pad2(n) == IF n >= 0 /\ n < 10 THEN "0" \o ToString(n) ELSE ToString(n)

formatDurationMinutes(d) ==
    LET seconds0 == d \div Second
        hours == seconds0 \div 3600
        minutes == seconds0 \div 60
        seconds == seconds0 % 60
    IN  IF hours > 0
        THEN Pad2(hours) \o ":" \o Pad2(minutes) \o ":" \o Pad2(seconds)
        ELSE Pad2(minutes) \o ":" \o Pad2(seconds)

formatDuration(d) ==
    LET seconds0 == d \div Second
        hours == seconds0 \div 3600
        seconds1 == seconds0 % 3600
        minutes == seconds1 \div 60
        seconds == seconds1 % 60
    IN  IF hours > 0
        THEN Pad2(hours) \o ":" \o Pad2(minutes) \o ":" \o Pad2(seconds)
        ELSE Pad2(minutes) \o ":" \o Pad2(seconds)

IsSpace(ch) == ch \in {" ", "\t", "\n", "\r", "\f"}

RECURSIVE TrimLeft(_)
TrimLeft(s) ==
    IF s # <<>> /\ IsSpace(Head(s)) THEN TrimLeft(Tail(s)) ELSE s

RECURSIVE TrimRight(_)
TrimRight(s) ==
    IF s # <<>> /\ IsSpace(s[Len(s)])
    THEN TrimRight(SubSeq(s, 1, Len(s) - 1))
    ELSE s

\* strings.TrimSpace
TrimSpace(s) == TrimRight(TrimLeft(s))

CmdGet == <<"g", "e", "t">>
CmdSwitch == <<"s", "w", "i", "t", "c", "h">>

\* What a client may put on the wire (one read of at most BufSize bytes).
Requests ==
    { CmdGet,
      <<" ", "g", "e", "t", "\n">>,
      CmdSwitch,
      <<"s", "w", "i", "t", "c", "h", "\n">>,
      <<"b", "o", "g", "u", "s">>,
      <<" ", "\n">> }

NoStatus == [period |-> "", rest_of_time |-> 0, rest_of_time_str |-> ""]
NoResponse == [status |-> <<>>, error |-> ""]

UnknownCommandSilent == NoResponse

\* default: response.Error = "Unknown command"
UnknownCommandResponse == [status |-> <<>>, error |-> "Unknown command"]

TimerState == <<currentPeriod, currentRestOfTime>>

----------------------------------------------------------------------------
(* Construction and start *)

\* configured period lengths, in seconds: the shortest ones and the longest
Durations == {0, 1, MaxLen}

NewPomodoroDaemon(workDuration, restDuration) ==
    /\ currentPeriod = Work
    /\ currentRestOfTime = workDuration
    /\ initialPeriodDurations = (Work :> workDuration) @@ (Rest :> restDuration)
    /\ mu = [w |-> {}, r |-> {}]

Init ==
    /\ \E workDuration \in Durations, restDuration \in Durations :
          NewPomodoroDaemon(workDuration * Second, restDuration * Second)
    /\ pc = [t \in Tasks |-> IF t = Ticker THEN "init" ELSE "idle"]
    /\ command = [c \in Conns |-> <<>>]
    /\ st = [c \in Conns |-> NoStatus]
    /\ response = [c \in Conns |-> NoResponse]
    /\ sent = [c \in Conns |-> {}]
    /\ note = ""
    /\ stable = <<>>
    /\ snap = [c \in Conns |-> <<>>]
    /\ tickPre = <<>>
    /\ toggled = [c \in Conns |-> ""]
    /\ switched = FALSE
    /\ origin = <<>>
    /\ socket \in {"absent", "stale"}
    /\ age = 0
    /\ toggleParity = 0

\* os.Stat(p.socketPath) succeeds: Start returns "socket ... already exists"
\* before net.Listen; the file is left in place
StartExists ==
    /\ pc[Ticker] = "init"
    /\ socket = "stale"
    /\ pc' = [pc EXCEPT ![Ticker] = "failed_exists"]
    /\ UNCHANGED <<timer, initialPeriodDurations, mu, locals, sent, note,
                   stable, snap, tickPre, toggled, switched, origin, socket,
                   age, toggleParity>>

\* no file at the path, but net.Listen fails: Start returns "failed to create
\* socket"
StartListenFail ==
    /\ pc[Ticker] = "init"
    /\ socket = "absent"
    /\ pc' = [pc EXCEPT ![Ticker] = "failed_listen"]
    /\ UNCHANGED <<timer, initialPeriodDurations, mu, locals, sent, note,
                   stable, snap, tickPre, toggled, switched, origin, socket,
                   age, toggleParity>>

StartRunning ==
    /\ pc[Ticker] = "init"
    /\ socket = "absent"
    /\ socket' = "bound"
    /\ stable' = TimerState
    /\ pc' = [pc EXCEPT ![Ticker] = "wait"]
    /\ UNCHANGED <<timer, initialPeriodDurations, mu, locals, sent, note,
                   snap, tickPre, toggled, switched, origin,
                   age, toggleParity>>

\* PomodoroDaemon.Start up to `go p.runTimer()': no file at the path, net.Listen
\* binds the socket, and the timer is forced to Stopped.
Start ==
    /\ pc[Ticker] = "init"
    /\ socket = "absent"
    /\ socket' = "bound"
    /\ currentPeriod' = Stopped
    /\ currentRestOfTime' = 0
    /\ stable' = <<Stopped, 0>>
    /\ pc' = [pc EXCEPT ![Ticker] = "wait"]
    /\ UNCHANGED <<initialPeriodDurations, mu, locals, sent, note, snap,
                   tickPre, toggled, switched, origin, age, toggleParity>>

----------------------------------------------------------------------------
(* sync.RWMutex *)

\* Lock() returns once no reader and no writer holds the mutex
CanLock == mu.w = {} /\ mu.r = {}

CanRLockAnyway == TRUE

\* RLock() returns once no writer holds the mutex
CanRLock == mu.w = {}

----------------------------------------------------------------------------
(* runTimer / switchTimer *)

\* ticker.C delivers a tick
TickFire ==
    /\ pc[Ticker] = "wait"
    /\ pc' = [pc EXCEPT ![Ticker] = "lock"]
    /\ UNCHANGED <<timer, initialPeriodDurations, mu, locals, sent, note,
                   stable, snap, tickPre, toggled, switched,
                   origin, socket, age, toggleParity>>

TickLock ==
    /\ pc[Ticker] = "lock"
    /\ CanLock
    /\ mu' = [mu EXCEPT !.w = @ \cup {Ticker}]
    /\ tickPre' = TimerState
    /\ pc' = [pc EXCEPT ![Ticker] = "locked"]
    /\ UNCHANGED <<timer, initialPeriodDurations, locals, sent, note, stable,
                   snap, toggled, switched, origin, socket, age, toggleParity>>

TickMustSwitchEarly ==
    currentPeriod # Stopped /\ currentRestOfTime <= 2 * Second

TickMustSwitchLate ==
    currentPeriod # Stopped /\ currentRestOfTime <= 0 * Second

\* p.currentPeriod != Stopped && p.currentRestOfTime <= 1*time.Second
TickMustSwitch == currentPeriod # Stopped /\ currentRestOfTime <= 1 * Second

TickMustCountAlways == TRUE

\* else if p.currentPeriod != Stopped
TickMustCount == currentPeriod # Stopped

\* the if / else-if of the loop body; the first branch enters switchTimer
\* and performs its first assignment
TickBody ==
    /\ pc[Ticker] = "locked"
    /\ IF TickMustSwitch
       THEN /\ currentPeriod' = getReversedPeriod(currentPeriod)
            /\ pc' = [pc EXCEPT ![Ticker] = "sw_rest"]
            /\ UNCHANGED currentRestOfTime
       ELSE IF TickMustCount
       THEN /\ currentRestOfTime' = currentRestOfTime - 1 * Second
            /\ pc' = [pc EXCEPT ![Ticker] = "unlock"]
            /\ UNCHANGED currentPeriod
       ELSE /\ pc' = [pc EXCEPT ![Ticker] = "unlock"]
            /\ UNCHANGED timer
    /\ UNCHANGED <<initialPeriodDurations, mu, locals, sent, note, stable,
                   snap, tickPre, toggled, switched, origin, socket,
                   age, toggleParity>>

SwitchSetRestOld ==
    /\ pc[Ticker] = "sw_rest"
    /\ currentRestOfTime' = initialPeriodDurations[tickPre[1]]
    /\ pc' = [pc EXCEPT ![Ticker] = "notify"]
    /\ UNCHANGED <<currentPeriod, initialPeriodDurations, mu, locals, sent,
                   note, stable, snap, tickPre, toggled, switched,
                   origin, socket, age, toggleParity>>

SwitchSetRestInto ==
    /\ pc[Ticker] = "sw_rest"
    /\ initialPeriodDurations' =
          [initialPeriodDurations EXCEPT ![currentPeriod] = currentRestOfTime]
    /\ pc' = [pc EXCEPT ![Ticker] = "notify"]
    /\ UNCHANGED <<timer, mu, locals, sent, note, stable, snap, tickPre,
                   toggled, switched, origin, socket, age, toggleParity>>

\* switchTimer: p.currentRestOfTime = p.initialPeriodDurations[p.currentPeriod]
SwitchSetRest ==
    /\ pc[Ticker] = "sw_rest"
    /\ currentRestOfTime' = initialPeriodDurations[currentPeriod]
    /\ pc' = [pc EXCEPT ![Ticker] = "notify"]
    /\ UNCHANGED <<currentPeriod, initialPeriodDurations, mu, locals, sent,
                   note, stable, snap, tickPre, toggled, switched,
                   origin, socket, age, toggleParity>>

NotifyTitleLeft(period) ==
    IF period = Work THEN "Pomodoro: Break Time!" ELSE "Pomodoro: Work Time!"

\* title chosen by switchTimer for the period it has just entered
NotifyTitle(period) ==
    IF period = Work THEN "Pomodoro: Work Time!" ELSE "Pomodoro: Break Time!"

\* switchTimer: exec.Command("notify-send", ...).Run() returns; its error is
\* dropped
SwitchNotify ==
    /\ pc[Ticker] = "notify"
    /\ note' = NotifyTitle(currentPeriod)
    /\ pc' = [pc EXCEPT ![Ticker] = "unlock"]
    /\ UNCHANGED <<timer, initialPeriodDurations, mu, locals, sent, stable,
                   snap, tickPre, toggled, switched, origin, socket,
                   age, toggleParity>>

TickUnlock ==
    /\ pc[Ticker] = "unlock"
    /\ mu' = [mu EXCEPT !.w = @ \ {Ticker}]
    /\ stable' = TimerState
    /\ tickPre' = <<>>
    /\ note' = ""
    /\ age' = IF currentPeriod # tickPre[1] THEN 0
              ELSE IF currentPeriod # Stopped THEN age + 1
              ELSE age
    /\ pc' = [pc EXCEPT ![Ticker] = "wait"]
    /\ UNCHANGED <<timer, initialPeriodDurations, locals, sent, snap,
                   toggled, switched, origin, socket, toggleParity>>

----------------------------------------------------------------------------
(* handleConnection *)

\* listener.Accept() returns and `go p.handleConnection(conn)' starts
Accept(c) ==
    /\ socket = "bound"
    /\ pc[c] \in {"idle", "dropped"}
    /\ pc' = [pc EXCEPT ![c] = "read"]
    /\ sent' = [sent EXCEPT ![c] = {}]
    /\ UNCHANGED <<timer, initialPeriodDurations, mu, locals, note, stable,
                   snap, tickPre, toggled, switched, origin, socket,
                   age, toggleParity>>

\* conn.Read succeeds; the command is trimmed and dispatched
Read(c) ==
    /\ pc[c] = "read"
    /\ \E raw \in Requests :
          LET cmd == TrimSpace(raw) IN
          /\ Len(raw) <= BufSize
          /\ command' = [command EXCEPT ![c] = cmd]
          /\ switched' = (switched \/ cmd = CmdSwitch)
          /\ IF cmd = CmdGet
             THEN /\ pc' = [pc EXCEPT ![c] = "get_status"]
                  /\ UNCHANGED response
             ELSE IF cmd = CmdSwitch
             THEN /\ pc' = [pc EXCEPT ![c] = "toggle"]
                  /\ UNCHANGED response
             ELSE /\ pc' = [pc EXCEPT ![c] = "write"]
                  /\ response' = [response EXCEPT ![c] = UnknownCommandResponse]
    /\ UNCHANGED <<timer, initialPeriodDurations, mu, st, sent, note, stable,
                   snap, tickPre, toggled, origin, socket, age, toggleParity>>

ReadFailReply(c) ==
    /\ pc[c] = "read"
    /\ sent' = [sent EXCEPT ![c] = {"error"}]
    /\ pc' = [pc EXCEPT ![c] = "dropped"]
    /\ UNCHANGED <<timer, initialPeriodDurations, mu, locals, note, stable,
                   snap, tickPre, toggled, switched, origin, socket,
                   age, toggleParity>>

\* conn.Read returns an error: return; the deferred conn.Close() runs and
\* nothing has been written.  The slot is free again; "dropped" records that
\* its last connection ended this way.
ReadFail(c) ==
    /\ pc[c] = "read"
    /\ pc' = [pc EXCEPT ![c] = "dropped"]
    /\ UNCHANGED <<timer, initialPeriodDurations, mu, locals, sent, note,
                   stable, snap, tickPre, toggled, switched,
                   origin, socket, age, toggleParity>>

----------------------------------------------------------------------------
(* toggleTimer *)

ToggleLock(c) ==
    /\ pc[c] = "toggle"
    /\ CanLock
    /\ mu' = [mu EXCEPT !.w = @ \cup {c}]
    /\ pc' = [pc EXCEPT ![c] = "tg_period"]
    /\ UNCHANGED <<timer, initialPeriodDurations, locals, sent, note, stable,
                   snap, tickPre, toggled, switched, origin, socket,
                   age, toggleParity>>

ToggleSetPeriodIntoRest(c) ==
    /\ pc[c] = "tg_period"
    /\ IF currentPeriod = Stopped
       THEN /\ currentPeriod' = Rest
            /\ pc' = [pc EXCEPT ![c] = "tg_rest_work"]
            /\ toggled' = [toggled EXCEPT ![c] = "resume"]
       ELSE /\ currentPeriod' = Stopped
            /\ pc' = [pc EXCEPT ![c] = "tg_rest_stop"]
            /\ toggled' = [toggled EXCEPT ![c] = "stop"]
    /\ UNCHANGED <<currentRestOfTime, initialPeriodDurations, mu, locals,
                   sent, note, stable, snap, tickPre, switched,
                   origin, socket, age, toggleParity>>

\* if p.currentPeriod == Stopped { p.currentPeriod = Work ... }
\* else { p.currentPeriod = Stopped ... }
ToggleSetPeriod(c) ==
    /\ pc[c] = "tg_period"
    /\ IF currentPeriod = Stopped
       THEN /\ currentPeriod' = Work
            /\ pc' = [pc EXCEPT ![c] = "tg_rest_work"]
            /\ toggled' = [toggled EXCEPT ![c] = "resume"]
       ELSE /\ currentPeriod' = Stopped
            /\ pc' = [pc EXCEPT ![c] = "tg_rest_stop"]
            /\ toggled' = [toggled EXCEPT ![c] = "stop"]
    /\ UNCHANGED <<currentRestOfTime, initialPeriodDurations, mu, locals,
                   sent, note, stable, snap, tickPre, switched,
                   origin, socket, age, toggleParity>>

ToggleSetRestKeep(c) ==
    /\ pc[c] \in {"tg_rest_work", "tg_rest_stop"}
    /\ currentRestOfTime' = IF pc[c] = "tg_rest_work"
                            THEN initialPeriodDurations[Work]
                            ELSE currentRestOfTime
    /\ pc' = [pc EXCEPT ![c] = "tg_unlock"]
    /\ UNCHANGED <<currentPeriod, initialPeriodDurations, mu, locals, sent,
                   note, stable, snap, tickPre, toggled, switched,
                   origin, socket, age, toggleParity>>

ToggleSetRestZero(c) ==
    /\ pc[c] \in {"tg_rest_work", "tg_rest_stop"}
    /\ currentRestOfTime' = 0
    /\ pc' = [pc EXCEPT ![c] = "tg_unlock"]
    /\ UNCHANGED <<currentPeriod, initialPeriodDurations, mu, locals, sent,
                   note, stable, snap, tickPre, toggled, switched,
                   origin, socket, age, toggleParity>>

\* p.currentRestOfTime = p.initialPeriodDurations[Work]  (resume branch)
\* p.currentRestOfTime = 0                               (stop branch)
ToggleSetRest(c) ==
    /\ pc[c] \in {"tg_rest_work", "tg_rest_stop"}
    /\ currentRestOfTime' = IF pc[c] = "tg_rest_work"
                            THEN initialPeriodDurations[Work]
                            ELSE 0
    /\ pc' = [pc EXCEPT ![c] = "tg_unlock"]
    /\ UNCHANGED <<currentPeriod, initialPeriodDurations, mu, locals, sent,
                   note, stable, snap, tickPre, toggled, switched,
                   origin, socket, age, toggleParity>>

ToggleUnlockKeep(c) ==
    /\ pc[c] = "tg_unlock"
    /\ stable' = TimerState
    /\ age' = 0
    /\ toggleParity' = (toggleParity + 1) % 2
    /\ pc' = [pc EXCEPT ![c] = "get_status"]
    /\ UNCHANGED <<timer, initialPeriodDurations, mu, locals, sent, note,
                   snap, tickPre, toggled, switched, origin, socket>>

\* deferred p.mu.Unlock(); handleConnection goes on to p.getStatus()
ToggleUnlock(c) ==
    /\ pc[c] = "tg_unlock"
    /\ mu' = [mu EXCEPT !.w = @ \ {c}]
    /\ stable' = TimerState
    /\ age' = 0
    /\ toggleParity' = (toggleParity + 1) % 2
    /\ pc' = [pc EXCEPT ![c] = "get_status"]
    /\ UNCHANGED <<timer, initialPeriodDurations, locals, sent, note, snap,
                   tickPre, toggled, switched, origin, socket>>

----------------------------------------------------------------------------
(* getStatus *)

StatusRLock(c) ==
    /\ pc[c] = "get_status"
    /\ CanRLock
    /\ mu' = [mu EXCEPT !.r = @ \cup {c}]
    /\ snap' = [snap EXCEPT ![c] = stable]
    /\ pc' = [pc EXCEPT ![c] = "st_read"]
    /\ UNCHANGED <<timer, initialPeriodDurations, locals, sent, note, stable,
                   tickPre, toggled, switched, origin, socket,
                   age, toggleParity>>

\* The body of getStatus, evaluated while the read lock is held:
\*   if p.currentPeriod == Stopped { return Status{"Stopped", 0, "00:00"} }
\*   return Status{p.periodToString(p.currentPeriod), p.currentRestOfTime,
\*                 formatDuration(p.currentRestOfTime)}
StatusRead(c) ==
    /\ pc[c] = "st_read"
    /\ st' = [st EXCEPT ![c] =
                 IF currentPeriod = Stopped
                 THEN [period |-> "Stopped",
                       rest_of_time |-> 0,
                       rest_of_time_str |-> "00:00"]
                 ELSE [period |-> periodToString(currentPeriod),
                       rest_of_time |-> currentRestOfTime,
                       rest_of_time_str |-> formatDuration(currentRestOfTime)]]
    /\ pc' = [pc EXCEPT ![c] = "runlock"]
    /\ UNCHANGED <<timer, initialPeriodDurations, mu, command, response, sent,
                   note, stable, snap, tickPre, toggled, switched,
                   origin, socket, age, toggleParity>>

StatusRUnlockKeep(c) ==
    /\ pc[c] = "runlock"
    /\ response' = [response EXCEPT ![c].status = <<st[c]>>]
    /\ st' = [st EXCEPT ![c] = NoStatus]
    /\ snap' = [snap EXCEPT ![c] = <<>>]
    /\ toggled' = [toggled EXCEPT ![c] = ""]
    /\ pc' = [pc EXCEPT ![c] = "write"]
    /\ UNCHANGED <<timer, initialPeriodDurations, mu, command, sent, note,
                   stable, tickPre, switched, origin, socket,
                   age, toggleParity>>

\* deferred p.mu.RUnlock(); handleConnection stores response.Status = &status
StatusRUnlock(c) ==
    /\ pc[c] = "runlock"
    /\ mu' = [mu EXCEPT !.r = @ \ {c}]
    /\ response' = [response EXCEPT ![c].status = <<st[c]>>]
    /\ st' = [st EXCEPT ![c] = NoStatus]
    /\ snap' = [snap EXCEPT ![c] = <<>>]
    /\ toggled' = [toggled EXCEPT ![c] = ""]
    /\ pc' = [pc EXCEPT ![c] = "write"]
    /\ UNCHANGED <<timer, initialPeriodDurations, command, sent, note, stable,
                   tickPre, switched, origin, socket, age, toggleParity>>

----------------------------------------------------------------------------
(* reply and close *)

MarshalNoOmit(resp) ==
    [k \in {"status", "error"}
       |-> IF k = "status" THEN resp.status ELSE <<resp.error>>]

\* json.Marshal with omitempty: the keys of the JSON object and their values
Marshal(resp) ==
    [k \in {"status" : x \in {1} \cap DOMAIN resp.status}
            \cup (IF resp.error # "" THEN {"error"} ELSE {})
       |-> IF k = "status" THEN resp.status[1] ELSE <<resp.error>>]

\* json.Marshal(response); conn.Write(jsonData) succeeds or fails; then the
\* deferred conn.Close() runs and the goroutine ends
Write(c) ==
    /\ pc[c] = "write"
    /\ \E ok \in BOOLEAN :
          sent' = [sent EXCEPT ![c] =
                      IF ok THEN DOMAIN Marshal(response[c]) ELSE {}]
    /\ pc' = [pc EXCEPT ![c] = "idle"]
    /\ command' = [command EXCEPT ![c] = <<>>]
    /\ response' = [response EXCEPT ![c] = NoResponse]
    /\ UNCHANGED <<timer, initialPeriodDurations, mu, st, note, stable, snap,
                   tickPre, toggled, switched, origin, socket,
                   age, toggleParity>>

----------------------------------------------------------------------------

Next ==
    \/ StartExists
    \/ StartListenFail
    \/ Start
    \/ TickFire
    \/ TickLock
    \/ TickBody
    \/ SwitchSetRest
    \/ SwitchNotify
    \/ TickUnlock
    \/ \E c \in Conns : Accept(c)
    \/ \E c \in Conns : Read(c)
    \/ \E c \in Conns : ReadFail(c)
    \/ \E c \in Conns : ToggleLock(c)
    \/ \E c \in Conns : ToggleSetPeriod(c)
    \/ \E c \in Conns : ToggleSetRest(c)
    \/ \E c \in Conns : ToggleUnlock(c)
    \/ \E c \in Conns : StatusRLock(c)
    \/ \E c \in Conns : StatusRead(c)
    \/ \E c \in Conns : StatusRUnlock(c)
    \/ \E c \in Conns : Write(c)

Spec == Init /\ [][Next]_vars

----------------------------------------------------------------------------
(* toggleTimer applied in a row, with no tick in between *)

\* the timer states the daemon rests in between operations, for configured
\* lengths w and r: Stopped, or a period with what is left of it
RestingStates(w, r) ==
    {<<Stopped, 0>>}
    \cup {<<Work, x>> : x \in IF w = 0 THEN {0} ELSE 1..w}
    \cup {<<Rest, x>> : x \in IF r = 0 THEN {0} ELSE 1..r}

\* every connection has sent "switch" and its handler is about to call
\* toggleTimer; the tick loop waits for its next tick
InitToggle ==
    /\ \E w \in Durations, r \in Durations :
          /\ initialPeriodDurations =
                (Work :> w * Second) @@ (Rest :> r * Second)
          /\ \E s \in RestingStates(w, r) :
                /\ currentPeriod = s[1]
                /\ currentRestOfTime = s[2] * Second
                /\ stable = <<s[1], s[2] * Second>>
                /\ origin = <<s[1], s[2] * Second>>
                /\ toggleParity = IF s[1] = Stopped THEN 0 ELSE 1
    /\ mu = [w |-> {}, r |-> {}]
    /\ pc = [t \in Tasks |-> IF t = Ticker THEN "wait" ELSE "toggle"]
    /\ command = [c \in Conns |-> CmdSwitch]
    /\ st = [c \in Conns |-> NoStatus]
    /\ response = [c \in Conns |-> NoResponse]
    /\ sent = [c \in Conns |-> {}]
    /\ note = ""
    /\ snap = [c \in Conns |-> <<>>]
    /\ tickPre = <<>>
    /\ toggled = [c \in Conns |-> ""]
    /\ switched = TRUE
    /\ socket = "bound"
    /\ age = 0

NextToggle ==
    \/ \E c \in Conns : ToggleLock(c)
    \/ \E c \in Conns : ToggleSetPeriod(c)
    \/ \E c \in Conns : ToggleSetRest(c)
    \/ \E c \in Conns : ToggleUnlock(c)

SpecToggle == InitToggle /\ [][NextToggle]_vars

\* the handlers whose toggleTimer has returned
Toggles == {c \in Conns : pc[c] = "get_status"}

----------------------------------------------------------------------------
(* getStatus on its own: formatDuration over a range of remaining times *)

\* values of one field of a duration, and the durations built from them
FmtHours == {0, 1, MaxHours}
FmtFields == {0, 1, 5, 9, 10, 59}
FmtDurations ==
    {(h * 3600 + m * 60 + x) * Second :
        h \in FmtHours, m \in FmtFields, x \in FmtFields}

\* a period has just been entered with d remaining and every connection has
\* sent "get": its handler is about to call getStatus
InitFormat ==
    /\ \E d \in FmtDurations, p \in {Work, Rest} :
          /\ initialPeriodDurations = (Work :> d) @@ (Rest :> d)
          /\ currentPeriod = p
          /\ currentRestOfTime = d
          /\ stable = <<p, d>>
    /\ mu = [w |-> {}, r |-> {}]
    /\ pc = [t \in Tasks |-> IF t = Ticker THEN "wait" ELSE "get_status"]
    /\ command = [c \in Conns |-> CmdGet]
    /\ st = [c \in Conns |-> NoStatus]
    /\ response = [c \in Conns |-> NoResponse]
    /\ sent = [c \in Conns |-> {}]
    /\ note = ""
    /\ snap = [c \in Conns |-> <<>>]
    /\ tickPre = <<>>
    /\ toggled = [c \in Conns |-> ""]
    /\ switched = TRUE
    /\ origin = <<>>
    /\ socket = "bound"
    /\ age = 0
    /\ toggleParity = 1

NextFormat ==
    \/ \E c \in Conns : StatusRLock(c)
    \/ \E c \in Conns : StatusRead(c)
    \/ \E c \in Conns : StatusRUnlock(c)

SpecFormat == InitFormat /\ [][NextFormat]_vars

----------------------------------------------------------------------------
(* A running timer with no "switch" request arriving *)

\* a period has just been entered with its configured length; the tick loop
\* waits for its next tick and no connection is open
InitTicks ==
    /\ \E w \in Durations, r \in Durations, p \in {Work, Rest} :
          /\ initialPeriodDurations =
                (Work :> w * Second) @@ (Rest :> r * Second)
          /\ currentPeriod = p
          /\ currentRestOfTime = initialPeriodDurations[p]
          /\ stable = <<p, initialPeriodDurations[p]>>
    /\ mu = [w |-> {}, r |-> {}]
    /\ pc = [t \in Tasks |-> IF t = Ticker THEN "wait" ELSE "idle"]
    /\ command = [c \in Conns |-> <<>>]
    /\ st = [c \in Conns |-> NoStatus]
    /\ response = [c \in Conns |-> NoResponse]
    /\ sent = [c \in Conns |-> {}]
    /\ note = ""
    /\ snap = [c \in Conns |-> <<>>]
    /\ tickPre = <<>>
    /\ toggled = [c \in Conns |-> ""]
    /\ switched = TRUE
    /\ origin = <<>>
    /\ socket = "bound"
    /\ age = 0
    /\ toggleParity = 1

\* a request other than "switch" is read
ReadOther(c) == Read(c) /\ command'[c] # CmdSwitch

\* sync.RWMutex: RLock() does not return while a Lock() call is waiting; the
\* only writer here is the tick loop
StatusRLockBehindWriter(c) == pc[Ticker] # "lock" /\ StatusRLock(c)

NextTicks ==
    \/ TickFire
    \/ TickLock
    \/ TickBody
    \/ SwitchSetRest
    \/ SwitchNotify
    \/ TickUnlock
    \/ \E c \in Conns : Accept(c)
    \/ \E c \in Conns : ReadOther(c)
    \/ \E c \in Conns : ReadFail(c)
    \/ \E c \in Conns : StatusRLockBehindWriter(c)
    \/ \E c \in Conns : StatusRead(c)
    \/ \E c \in Conns : StatusRUnlock(c)
    \/ \E c \in Conns : Write(c)

\* the ticker keeps delivering ticks, the goroutines that are able to run are
\* scheduled, and notify-send returns
FairTicks ==
    /\ WF_vars(TickFire)
    /\ WF_vars(TickLock)
    /\ WF_vars(TickBody)
    /\ WF_vars(SwitchSetRest)
    /\ WF_vars(SwitchNotify)
    /\ WF_vars(TickUnlock)
    /\ \A c \in Conns : WF_vars(StatusRead(c))
    /\ \A c \in Conns : WF_vars(StatusRUnlock(c))

SpecTicks == InitTicks /\ [][NextTicks]_vars /\ FairTicks

----------------------------------------------------------------------------
(* Properties *)

Started == socket = "bound"
Quiet == mu.w = {}
WorkLen == initialPeriodDurations[Work]
RestLen == initialPeriodDurations[Rest]
StoppedStatus ==
    [period |-> "Stopped", rest_of_time |-> 0, rest_of_time_str |-> "00:00"]

\* the Status that describes the complete timer state s = <<period, remaining>>
StatusOf(s) ==
    [period |-> periodToString(s[1]),
     rest_of_time |-> s[2],
     rest_of_time_str |-> formatDuration(s[2])]

\* C1: a reader never holds the lock together with a writer, at most one
\* writer holds it, and the Status a getStatus call returns describes, in
\* both of its parts, the timer state that was current when no tick or
\* toggle was in progress and the call took the read lock.
C1_ConsistentSnapshot ==
    /\ mu.w # {} => mu.r = {}
    /\ Cardinality(mu.w) <= 1
    /\ \A c \in Conns :
          pc[c] = "runlock" =>
             /\ snap[c] # <<>>
             /\ st[c] = StatusOf(snap[c])

\* a "get" has read a running timer while a "switch" handler waits for the lock
C1_Witness ==
    \E c, d \in Conns :
       /\ pc[c] = "runlock" /\ command[c] = CmdGet /\ st[c].period = "Work"
       /\ st[c].rest_of_time = 1 * Second /\ WorkLen = MaxLen * Second
       /\ pc[d] = "toggle"

\* C2: the Status a "switch" handler is about to return is the state its own
\* toggle produced: Work with the configured work length after a resume,
\* Stopped with 0 after a stop.
C2_OwnToggle ==
    \A c \in Conns :
       (pc[c] = "runlock" /\ command[c] = CmdSwitch) =>
          st[c] = IF toggled[c] = "resume"
                  THEN StatusOf(<<Work, WorkLen>>)
                  ELSE StoppedStatus

\* C3: once the daemon has started and no tick or toggle is in progress, the
\* period is Work, Rest or Stopped; Stopped goes with remaining 0; Work and
\* Rest go with 0 <= remaining <= the configured length of that period.
C3_StateInvariant ==
    (Started /\ Quiet) =>
       /\ currentPeriod \in {Work, Rest, Stopped}
       /\ currentPeriod # Unknown
       /\ currentPeriod = Stopped => currentRestOfTime = 0
       /\ currentPeriod \in {Work, Rest} =>
             /\ 0 <= currentRestOfTime
             /\ currentRestOfTime <= initialPeriodDurations[currentPeriod]

\* a rest period partly used up, reached by ticks
C3_Witness ==
    /\ Started /\ Quiet
    /\ currentPeriod = Rest
    /\ currentRestOfTime = 1 * Second
    /\ RestLen = MaxLen * Second

\* C4: one toggle of a Stopped timer yields (Work, length of Work); one
\* toggle of a running timer yields (Stopped, 0); so stopping and resuming a
\* running timer yields (Work, length of Work) whatever it was running.
C4_Toggle ==
    Quiet =>
       /\ (Cardinality(Toggles) = 1 /\ origin[1] = Stopped) =>
             TimerState = <<Work, WorkLen>>
       /\ (Cardinality(Toggles) = 1 /\ origin[1] \in {Work, Rest}) =>
             TimerState = <<Stopped, 0>>
       /\ (Cardinality(Toggles) = 2 /\ origin[1] \in {Work, Rest}) =>
             TimerState = <<Work, WorkLen>>

\* a rest period with 1 second left has been stopped and resumed
C4_Witness ==
    /\ Quiet
    /\ Cardinality(Toggles) = 2
    /\ origin = <<Rest, 1 * Second>>
    /\ WorkLen = MaxLen * Second
    /\ TimerState = <<Work, WorkLen>>

\* C5 as stated: two toggles in a row from a Stopped timer leave it at
\* (Work, length of Work).
C5_TwiceFromStopped ==
    (Quiet /\ Cardinality(Toggles) = 2 /\ origin[1] = Stopped) =>
       TimerState = <<Work, WorkLen>>

\* C5 amended: two toggles in a row, with no tick in between, return a
\* running timer to (Work, length of Work) and a Stopped timer to
\* (Stopped, 0).
C5_TwiceInARow ==
    (Quiet /\ Cardinality(Toggles) = 2) =>
       TimerState = IF origin[1] = Stopped
                    THEN <<Stopped, 0>>
                    ELSE <<Work, WorkLen>>

\* a Stopped timer has been toggled twice
C5_Witness ==
    /\ Quiet
    /\ Cardinality(Toggles) = 2
    /\ origin = <<Stopped, 0>>
    /\ WorkLen = MaxLen * Second
    /\ TimerState = <<Stopped, 0>>

\* C6: a tick that finds the timer in Work or Rest with more than 1 second
\* remaining takes exactly 1 second off, keeps the period and hands nothing
\* to the notifier.
C6_TickCountsDown ==
    (pc[Ticker] = "unlock" /\ tickPre[1] \in {Work, Rest}
                           /\ tickPre[2] > 1 * Second) =>
       /\ currentRestOfTime = tickPre[2] - 1 * Second
       /\ currentPeriod = tickPre[1]
       /\ note = ""

\* a tick has counted a rest period down from 2 seconds to 1
C6_Witness ==
    /\ pc[Ticker] = "unlock"
    /\ tickPre = <<Rest, 2 * Second>>
    /\ TimerState = <<Rest, 1 * Second>>

\* C7: a tick that finds the timer in Work or Rest with at most 1 second
\* remaining leaves it in the other period with that period's configured
\* length.
C7_TickSwitches ==
    (pc[Ticker] = "unlock" /\ tickPre[1] \in {Work, Rest}
                           /\ tickPre[2] <= 1 * Second) =>
       /\ tickPre[1] = Work => TimerState = <<Rest, RestLen>>
       /\ tickPre[1] = Rest => TimerState = <<Work, WorkLen>>

\* a tick has ended a rest period and entered Work
C7_Witness ==
    /\ pc[Ticker] = "unlock"
    /\ tickPre = <<Rest, 1 * Second>>
    /\ RestLen = MaxLen * Second
    /\ TimerState = <<Work, WorkLen>>

\* a step of toggleTimer that assigns to the timer state
ToggleWrites ==
    \E c \in Conns :
       /\ pc[c] \in {"tg_period", "tg_rest_work", "tg_rest_stop"}
       /\ pc'[c] # pc[c]

\* C8: a tick that finds the timer Stopped leaves period and remaining as
\* they were and hands nothing to the notifier; and a timer at (Stopped, 0)
\* stays there in every step that is not an assignment of a toggle.
C8_StoppedStays ==
    /\ [](pc[Ticker] = "unlock" /\ tickPre[1] = Stopped =>
             TimerState = tickPre /\ note = "")
    /\ [][(Started /\ TimerState = <<Stopped, 0>> /\ ~ToggleWrites) =>
             (currentPeriod' = Stopped /\ currentRestOfTime' = 0)]_vars

\* a tick has passed over a timer that was stopped by a "switch"
C8_Witness ==
    /\ pc[Ticker] = "unlock"
    /\ tickPre = <<Stopped, 0>>
    /\ TimerState = <<Stopped, 0>>
    /\ switched
    /\ \E c \in Conns : pc[c] = "write" /\ command[c] = CmdGet

\* C9: a "get" that reads a Stopped timer is answered with "Stopped", 0 and
\* "00:00", and so is every "get" read before any "switch" has been received.
C9_StoppedGet ==
    \A c \in Conns :
       (pc[c] = "runlock" /\ command[c] = CmdGet
          /\ (snap[c][1] = Stopped \/ ~switched)) =>
             /\ st[c].period = "Stopped"
             /\ st[c].rest_of_time = 0
             /\ st[c].rest_of_time_str = "00:00"

\* a "get" is answered before any "switch", while a tick is in progress
\* behind it
C9_Witness ==
    \E c \in Conns :
       /\ pc[c] = "runlock" /\ command[c] = CmdGet
       /\ ~switched
       /\ pc[Ticker] = "lock"
       /\ st[c] = StoppedStatus

\* C10: a handler whose trimmed command is neither "get" nor "switch" (the
\* empty command included) is about to write the error "Unknown command"
\* and no status.
C10_UnknownCommand ==
    \A c \in Conns :
       (pc[c] = "write" /\ command[c] \notin {CmdGet, CmdSwitch}) =>
          /\ response[c].error = "Unknown command"
          /\ response[c].status = <<>>
          /\ DOMAIN Marshal(response[c]) = {"error"}

\* a request of white space only is being answered
C10_Witness ==
    \E c \in Conns :
       /\ pc[c] = "write"
       /\ command[c] = <<>>
       /\ response[c].error = "Unknown command"

\* C11: the response a handler is about to write has exactly one of its two
\* fields populated, and so has the JSON object made from it: a status for
\* "get" and "switch", an error for anything else; what has been written on
\* a connection never carries both keys.
C11_OneField ==
    \A c \in Conns :
       /\ pc[c] = "write" =>
             /\ (response[c].status # <<>>) # (response[c].error # "")
             /\ Cardinality(DOMAIN Marshal(response[c])) = 1
             /\ command[c] \in {CmdGet, CmdSwitch} <=>
                   DOMAIN Marshal(response[c]) = {"status"}
       /\ sent[c] \in {{}, {"status"}, {"error"}}

\* a "switch" is about to be answered with a status while another slot has
\* written an error
C11_Witness ==
    \E c, d \in Conns :
       /\ pc[c] = "write" /\ command[c] = CmdSwitch
       /\ response[c].status # <<>> /\ response[c].error = ""
       /\ sent[d] = {"error"}

\* the tick in progress has performed a period switch
TickSwitched ==
    tickPre[1] \in {Work, Rest} /\ tickPre[2] <= 1 * Second

\* C12: when a tick is about to release the lock, a title has been handed to
\* the notifier exactly if that tick switched the period, and it is the work
\* title when Work was entered and the break title when Rest was entered;
\* the title is handed over in one step of switchTimer and in no step of a
\* toggle, a "get" or an unrecognized command.
C12_NotifyOnSwitch ==
    /\ [](pc[Ticker] = "unlock" =>
             /\ TickSwitched <=> note # ""
             /\ (TickSwitched /\ currentPeriod = Work) =>
                   note = "Pomodoro: Work Time!"
             /\ (TickSwitched /\ currentPeriod = Rest) =>
                   note = "Pomodoro: Break Time!")
    /\ [][note' # note =>
             \/ pc[Ticker] = "notify" /\ pc'[Ticker] = "unlock" /\ note = ""
             \/ pc[Ticker] = "unlock" /\ pc'[Ticker] = "wait" /\ note' = ""]_vars

\* the tick that ended a work period has announced the break
C12_Witness ==
    /\ pc[Ticker] = "unlock"
    /\ tickPre[1] = Work
    /\ currentPeriod = Rest
    /\ note = "Pomodoro: Break Time!"

\* C13: the tick loop holds the exclusive lock only for the in-memory tick:
\* while the notification command is running the lock is free, so a request
\* that has been read can take the lock and be answered however long the
\* command runs.
C13_HookOutsideLock ==
    pc[Ticker] = "notify" => (Ticker \notin mu.w /\ CanRLock)

\* handlers that are blocked on their connection (waiting for the request
\* or writing the reply)
Blocked == {c \in Conns : pc[c] \in {"read", "write"}}

\* C14: a handler blocked on its connection holds the lock neither shared
\* nor exclusive, so what the tick loop and the other handlers need in order
\* to proceed never depends on it: when every handler is idle or blocked and
\* the tick loop is outside its critical section, the lock is free.
C14_BlockedHoldsNoLock ==
    /\ \A c \in Blocked : c \notin mu.w /\ c \notin mu.r
    /\ (/\ \A c \in Conns : pc[c] \in {"idle", "dropped"} \/ c \in Blocked
        /\ pc[Ticker] \in {"wait", "lock"}) => CanLock

\* one client never sends its command, another never reads its reply, and
\* the tick loop is about to take the lock
C14_Witness ==
    /\ \E c, d \in Conns : pc[c] = "read" /\ pc[d] = "write"
    /\ pc[Ticker] = "lock"
    /\ currentPeriod # Stopped

\* C15: a socket file left at the path by a previous run does not survive
\* startup (it is removed and the daemon binds the path), and startup fails
\* only because binding the socket failed.
C15_StaleSocketRemoved ==
    /\ pc[Ticker] # "init" => socket # "stale"
    /\ pc[Ticker] \in {"failed_exists", "failed_listen"} =>
          pc[Ticker] = "failed_listen"

Digit(n) == <<"0", "1", "2", "3", "4", "5", "6", "7", "8", "9">>[n + 1]

RECURSIVE Decimal(_)
Decimal(n) ==
    IF n < 10 THEN Digit(n) ELSE Decimal(n \div 10) \o Digit(n % 10)

\* n written in decimal, zero-padded to two digits
TwoDigits(n) == IF n < 10 THEN "0" \o Digit(n) ELSE Decimal(n)

\* C16: the string getStatus returns for a remaining time d is built from
\* h = d div 3600, m = (d mod 3600) div 60 and s = d mod 60, each padded to
\* two digits, as h:m:s when h > 0 and as m:s when h = 0; in particular
\* 0 gives "00:00", 65 gives "01:05" and 3661 gives "01:01:01".
C16_FormatDuration ==
    \A c \in Conns :
       pc[c] = "runlock" =>
          LET d == currentRestOfTime \div Second
              h == d \div 3600
              m == (d % 3600) \div 60
              x == d % 60
              str == st[c].rest_of_time_str
          IN  /\ h > 0 => str = TwoDigits(h) \o ":" \o TwoDigits(m)
                                     \o ":" \o TwoDigits(x)
              /\ h = 0 => str = TwoDigits(m) \o ":" \o TwoDigits(x)
              /\ d = 0 => str = "00:00"
              /\ d = 65 => str = "01:05"
              /\ d = 3661 => str = "01:01:01"

\* getStatus has formatted one hour, one minute and one second
C16_Witness ==
    \E c \in Conns :
       /\ pc[c] = "runlock"
       /\ currentRestOfTime = 3661 * Second
       /\ st[c].rest_of_time_str = "01:01:01"

\* C17: once the daemon has started, a step changes the period or the
\* remaining time only if it is a step of the tick body or a write of the
\* toggle of a handler whose command is "switch"; no step of a handler whose
\* command is "get" or unrecognized changes them; and no step at all changes
\* the configured period lengths.
C17_Frame ==
    [][/\ initialPeriodDurations' = initialPeriodDurations
       /\ (Started /\ timer' # timer) =>
             \/ pc[Ticker] \in {"locked", "sw_rest"} /\ pc'[Ticker] # pc[Ticker]
             \/ \E c \in Conns :
                   /\ command[c] = CmdSwitch
                   /\ pc[c] \in {"tg_period", "tg_rest_work", "tg_rest_stop"}
                   /\ pc'[c] # pc[c]
       /\ \A c \in Conns :
             (pc'[c] # pc[c] /\ command'[c] # CmdSwitch) => timer' = timer]_vars

\* while the timer runs, a "get" has read the state and an unrecognized
\* command is about to be answered
C17_Witness ==
    /\ currentPeriod = Rest
    /\ currentRestOfTime = initialPeriodDurations[Rest]
    /\ \E c, d \in Conns :
          /\ pc[c] = "runlock" /\ command[c] = CmdGet
          /\ pc[d] = "write" /\ response[d].error # ""

\* C18: when reading the request fails, the handler ends with nothing
\* written on the connection; that step changes neither the timer state nor
\* the lock nor the position of the tick loop or of any other handler, and
\* the slot takes the next connection.
C18_ReadFailure ==
    /\ [](\A c \in Conns : pc[c] \in {"read", "dropped"} => sent[c] = {})
    /\ [][\A c \in Conns :
            (pc[c] = "read" /\ pc'[c] = "dropped") =>
               /\ timer' = timer
               /\ initialPeriodDurations' = initialPeriodDurations
               /\ mu' = mu
               /\ \A t \in Tasks \ {c} : pc'[t] = pc[t]
               /\ sent' = sent]_vars
    /\ [](\A c \in Conns : pc[c] = "dropped" => ENABLED Accept(c))

\* a read has failed while the timer runs, the tick loop is inside a tick
\* and another handler is inside its toggle
C18_Witness ==
    \E c, d \in Conns :
       /\ pc[c] = "dropped"
       /\ pc[Ticker] = "lock"
       /\ pc[d] = "tg_rest_stop"

\* positions between Lock and Unlock, and between RLock and RUnlock
WriterPcs ==
    {"locked", "sw_rest", "notify", "unlock",
     "tg_period", "tg_rest_work", "tg_rest_stop", "tg_unlock"}
ReaderPcs == {"st_read", "runlock"}

\* C19: a task holds the lock exactly while it is between an acquisition
\* and the matching release, never in both modes and never when it is about
\* to acquire (so a "switch" handler has released its exclusive lock before
\* its status read takes the shared one); at most one task holds it
\* exclusively; every holder can take its next step towards the release
\* without waiting for any other task; and when nobody holds the lock every
\* waiting task can take it.  Hence no reachable state is a deadlock.
C19_LockDiscipline ==
    /\ mu.w = {t \in Tasks : pc[t] \in WriterPcs}
    /\ mu.r = {c \in Conns : pc[c] \in ReaderPcs}
    /\ mu.w \cap mu.r = {}
    /\ Cardinality(mu.w) <= 1
    /\ mu.w # {} => mu.r = {}
    /\ Ticker \in mu.w =>
          ENABLED (TickBody \/ SwitchSetRest \/ SwitchNotify \/ TickUnlock)
    /\ \A c \in mu.w \cap Conns :
          ENABLED (ToggleSetPeriod(c) \/ ToggleSetRest(c) \/ ToggleUnlock(c))
    /\ \A c \in mu.r : ENABLED (StatusRead(c) \/ StatusRUnlock(c))
    /\ (mu.w = {} /\ mu.r = {}) =>
          /\ pc[Ticker] = "lock" => ENABLED TickLock
          /\ \A c \in Conns :
                /\ pc[c] = "toggle" => ENABLED ToggleLock(c)
                /\ pc[c] = "get_status" => ENABLED StatusRLock(c)

\* a "switch" handler has released its exclusive lock and waits for the
\* shared one while another handler holds the exclusive lock and the tick
\* loop waits for it
C19_Witness ==
    /\ pc[Ticker] = "lock"
    /\ \E c, d \in Conns :
          /\ pc[c] = "get_status" /\ command[c] = CmdSwitch
          /\ pc[d] = "tg_unlock" /\ d \in mu.w

\* configured length of the current period
PeriodLen == initialPeriodDurations[currentPeriod]

\* C20: with no "switch" arriving, a period of configured length L >= 1 that
\* has seen `age' ticks has L - age seconds remaining and age < L; the tick
\* that follows switches exactly if it is the L-th one and decrements
\* otherwise; a switch leads from Work to Rest and from Rest to Work; and
\* under fair ticking Work is eventually followed by Rest and Rest by Work.
C20_PeriodEnds ==
    /\ []((mu.w = {} /\ PeriodLen >= 1 * Second) =>
             /\ age * Second < PeriodLen
             /\ currentRestOfTime = PeriodLen - age * Second)
    /\ [][(pc[Ticker] = "locked" /\ pc'[Ticker] # "locked"
                /\ PeriodLen >= 1 * Second) =>
             /\ pc'[Ticker] = "sw_rest" <=> (age + 1) * Second = PeriodLen
             /\ pc'[Ticker] = "unlock" <=> (age + 1) * Second < PeriodLen
             /\ pc'[Ticker] = "unlock" =>
                   /\ currentPeriod' = currentPeriod
                   /\ currentRestOfTime' = currentRestOfTime - 1 * Second]_vars
    /\ [][currentPeriod' # currentPeriod =>
             <<currentPeriod, currentPeriod'>> \in {<<Work, Rest>>, <<Rest, Work>>}]_vars
    /\ (currentPeriod = Work) ~> (currentPeriod = Rest)
    /\ (currentPeriod = Rest) ~> (currentPeriod = Work)

\* the last tick of a work period of the longest length has switched to Rest
C20_Witness ==
    /\ pc[Ticker] = "unlock"
    /\ initialPeriodDurations[Work] = MaxLen * Second
    /\ age = MaxLen - 1
    /\ tickPre = <<Work, 1 * Second>>
    /\ currentPeriod = Rest

\* the Status values a handler holds: returned by getStatus or stored in the
\* response it is about to write
Reported ==
    {st[c] : c \in {d \in Conns : pc[d] = "runlock"}}
    \cup {response[c].status[1] :
             c \in {d \in Conns : pc[d] = "write" /\ response[d].status # <<>>}}

\* C21: when both configured lengths are at least one second, a running
\* timer (period Work or Rest, no writer in the middle of an update) has at
\* least one second remaining, and no Status carries period Work or Rest
\* together with a remaining time of 0 or the string "00:00".
C21_RunningHasTime ==
    (WorkLen >= 1 * Second /\ RestLen >= 1 * Second) =>
       /\ (Quiet /\ currentPeriod \in {Work, Rest}) =>
             currentRestOfTime >= 1 * Second
       /\ \A s \in Reported :
             s.period \in {"Work", "Rest"} =>
                /\ s.rest_of_time >= 1 * Second
                /\ s.rest_of_time_str # "00:00"

\* a "get" reports the last second of a rest period that follows a work
\* period of one second
C21_Witness ==
    /\ WorkLen = 1 * Second /\ RestLen = MaxLen * Second
    /\ Quiet /\ currentPeriod = Rest /\ currentRestOfTime = 1 * Second
    /\ \E c \in Conns :
          /\ pc[c] = "write" /\ command[c] = CmdGet
          /\ response[c].status =
                <<[period |-> "Rest", rest_of_time |-> 1 * Second,
                   rest_of_time_str |-> "00:01"]>>

\* the handlers that are inside toggleTimer, between Lock and Unlock
Toggling == mu.w \cap Conns

\* C22: after daemon start, whenever no toggle is in progress, the timer is
\* Stopped exactly if the number of toggles completed so far is even,
\* whatever ticks, "get" requests and unrecognized commands have happened.
C22_ToggleParity ==
    (Started /\ Toggling = {}) =>
       (currentPeriod = Stopped <=> toggleParity = 0)

\* an odd number of toggles has completed, a tick has since switched the
\* period to Rest, and an unrecognized command has been answered
C22_Witness ==
    /\ Started /\ Toggling = {} /\ mu.w = {}
    /\ toggleParity = 1
    /\ currentPeriod = Rest
    /\ \E c \in Conns : sent[c] = {"error"}

====
